---- MODULE Spec2Model ----
(***************************************************************************)
(* A model of the intel4004 emulator: the bounded registers of             *)
(* registers.py, the opcode registry and the decode/execute engine of      *)
(* emulator.py.  A call that raises is modelled by the field exc of the    *)
(* machine record: once exc is set, the remaining statements of the call   *)
(* are skipped, and whatever was written before the raise stays written.   *)
(***************************************************************************)
EXTENDS Integers, Sequences, FiniteSets, TLC

VARIABLES
    accumulator,        \* Intel4004.accumulator        (FourBitRegister)
    carry,              \* Intel4004.carry              (OneBitRegister)
    test_pin,           \* Intel4004.test_pin           (OneBitRegister)
    data_pointer,       \* Intel4004.data_pointer       (EightBitRegister)
    program_counter,    \* Intel4004.program_counter    (TwelveBitRegister)
    four_bit_registers, \* Intel4004.four_bit_registers ('0'..'15')
    stack,              \* Intel4004.stack: [registers, cursor]
    rom,                \* Intel4004.rom: the cells that differ from 0
    reg,                \* a register object built on its own (test_registers.py)
    last,               \* the last call made on the objects above and its outcome
    prev,               \* what last held before the last step() or get_inverted()
    calls,              \* the subroutine calls that have not returned yet
    steps               \* number of step() calls made so far

vars == <<accumulator, carry, test_pin, data_pointer, program_counter,
          four_bit_registers, stack, rom, reg, last, prev, calls, steps>>

----------------------------------------------------------------------------
(* Bounds of the model *)

MaxSteps == 2

\* pushes on the return stack that wait for their pop
MaxPending == 4

\* step() calls of a program of nested subroutine calls
MaxCallSteps == 8

\* step() calls of a run of the countdown program
MaxProgSteps == 132

----------------------------------------------------------------------------
(* registers.py: constants *)

MAX_ONE_BIT_VALUE == (2^1) - 1
MAX_FOUR_BIT_VALUE == (2^4) - 1
MAX_EIGHT_BIT_VALUE == (2^8) - 1
MAX_TWELVE_BIT_VALUE == (2^12) - 1

ROM_SIZE == 4096

(* Python values handed to set(): an int, or something that is not an int *)
PyInt(n) == [type |-> "int", v |-> n]
PyStr == [type |-> "str", v |-> 0]

----------------------------------------------------------------------------
(* Python's integer operators on non-negative operands *)

RECURSIVE BitAnd(_, _)
BitAnd(x, y) ==
    IF x = 0 \/ y = 0 THEN 0
    ELSE (IF x % 2 = 1 /\ y % 2 = 1 THEN 1 ELSE 0) + 2 * BitAnd(x \div 2, y \div 2)

RECURSIVE BitOr(_, _)
BitOr(x, y) ==
    IF x = 0 THEN y
    ELSE IF y = 0 THEN x
    ELSE (IF x % 2 = 1 \/ y % 2 = 1 THEN 1 ELSE 0) + 2 * BitOr(x \div 2, y \div 2)

ShiftRight(x, n) == x \div (2^n)
ShiftLeft(x, n) == x * (2^n)

----------------------------------------------------------------------------
(* registers.py: Register *)

\* Register.set without the check against max_value
Register_set_exc_NoUpper(max_value, value) ==
    IF value.type # "int" THEN "ValueInvalid"
    ELSE IF value.v < 0 THEN "ValueOutOfBounds"
    ELSE "none"

\* Register.set without the check against 0
Register_set_exc_NoLower(max_value, value) ==
    IF value.type # "int" THEN "ValueInvalid"
    ELSE IF value.v > max_value THEN "ValueOutOfBounds"
    ELSE "none"

\* Register.set: the exception it raises, or "none" when it commits
Register_set_exc(max_value, value) ==
    IF value.type # "int" THEN "ValueInvalid"
    ELSE IF value.v < 0 THEN "ValueOutOfBounds"
    ELSE IF value.v > max_value THEN "ValueOutOfBounds"
    ELSE "none"

\* Register.set on a cell holding cur: the value held afterwards and the outcome
Register_set(cur, max_value, value) ==
    LET e == Register_set_exc(max_value, value)
    IN  [value |-> IF e = "none" THEN value.v ELSE cur, exc |-> e]

\* OneBitRegister / FourBitRegister / EightBitRegister / TwelveBitRegister
\* __init__(name, value): Register.__init__ then self.set(value).  When set
\* raises, the constructor raises and no object comes into being.
Register_init(num_bits, max_value, value) ==
    LET e == Register_set_exc(max_value, value)
    IN  [made |-> e = "none", num_bits |-> num_bits, max_value |-> max_value,
         value |-> IF e = "none" THEN value.v ELSE 0, exc |-> e]

OneBitRegister(value) == Register_init(1, MAX_ONE_BIT_VALUE, value)
\* a four-bit register that starts at 1 whatever value it is built with
FourBitRegister_StartsAtOne(value) ==
    Register_init(4, MAX_FOUR_BIT_VALUE, PyInt(1))

FourBitRegister(value) == Register_init(4, MAX_FOUR_BIT_VALUE, value)
EightBitRegister(value) == Register_init(8, MAX_EIGHT_BIT_VALUE, value)
TwelveBitRegister(value) == Register_init(12, MAX_TWELVE_BIT_VALUE, value)

Register_increment(cur, max_value) == Register_set(cur, max_value, PyInt(cur + 1))

Register_decrement(cur, max_value) == Register_set(cur, max_value, PyInt(cur - 1))

\* Register.get_inverted: the loop over pow in range(0, num_bits)
RECURSIVE InvertedFrom(_, _, _)
InvertedFrom(value, pow, num_bits) ==
    IF pow >= num_bits THEN 0
    ELSE (IF BitAnd(value, 2^pow) = 0 THEN 2^pow ELSE 0)
         + InvertedFrom(value, pow + 1, num_bits)

\* get_inverted that leaves the top bit out of the loop
Register_get_inverted_SkipsTopBit(value, num_bits) ==
    InvertedFrom(value, 0, num_bits - 1)

\* Register.get_inverted
Register_get_inverted(value, num_bits) == InvertedFrom(value, 0, num_bits)

----------------------------------------------------------------------------
(* registers.py: CircularBuffer.  The class is used by emulator.py and      *)
(* tested by test_registers.py, but its code is not in registers.py: it is *)
(* modelled from the specification's description of the return stack.      *)

STACK_SLOTS == 3

\* a push that advances the cursor first and writes where it then points
CircularBuffer_push_AdvancesFirst(s, value) ==
    LET c == (s.cursor + 1) % STACK_SLOTS
        r == Register_set(s.registers[c], MAX_TWELVE_BIT_VALUE, value)
    IN  IF r.exc # "none"
        THEN [stack |-> s, exc |-> r.exc]
        ELSE [stack |-> [registers |-> [s.registers EXCEPT ![c] = r.value],
                         cursor |-> c],
              exc |-> "none"]

\* push(address): writes at the cursor, then advances the cursor modulo 3
CircularBuffer_push(s, value) ==
    LET r == Register_set(s.registers[s.cursor], MAX_TWELVE_BIT_VALUE, value)
    IN  IF r.exc # "none"
        THEN [stack |-> s, exc |-> r.exc]
        ELSE [stack |-> [registers |-> [s.registers EXCEPT ![s.cursor] = r.value],
                         cursor |-> (s.cursor + 1) % STACK_SLOTS],
              exc |-> "none"]

\* a pop that does not move the cursor back from slot 0
CircularBuffer_pop_StopsAtZero(s) ==
    LET c == IF s.cursor = 0 THEN 0 ELSE s.cursor - 1
    IN  [stack |-> [s EXCEPT !.cursor = c], value |-> s.registers[c]]

\* pop(): moves the cursor back modulo 3 and returns that slot's value
CircularBuffer_pop(s) ==
    LET c == (s.cursor + STACK_SLOTS - 1) % STACK_SLOTS
    IN  [stack |-> [s EXCEPT !.cursor = c], value |-> s.registers[c]]

----------------------------------------------------------------------------
(* emulator.py: the instruction store.  rom holds the cells that are not 0; *)
(* every other cell of the 4096 holds the 0 the constructor put there.     *)

RomAt(r, address) == IF address \in DOMAIN r THEN r[address] ELSE 0

RomWrite(r, address, byte) ==
    IF byte = 0
    THEN [a \in DOMAIN r \ {address} |-> r[a]]
    ELSE [a \in DOMAIN r \cup {address} |-> IF a = address THEN byte ELSE r[a]]

\* Intel4004.set_rom: the loop over i in range(len(rom)); rom[address + i]
\* raises IndexError past the end of the list, after the earlier writes
RECURSIVE set_rom_from(_, _, _, _)
set_rom_from(r, address, image, i) ==
    IF i >= Len(image) THEN [rom |-> r, exc |-> "none"]
    ELSE IF address + i >= ROM_SIZE THEN [rom |-> r, exc |-> "IndexError"]
    ELSE set_rom_from(RomWrite(r, address + i, image[i + 1]), address, image, i + 1)

set_rom(r, address, image) == set_rom_from(r, address, image, 0)

----------------------------------------------------------------------------
(* The machine as one record, and the statements the handlers are made of. *)
(* A statement applied to a machine that has raised does nothing.          *)

Raised(m) == m.exc # "none"

Raise(m, e) == [m EXCEPT !.exc = e]

\* self.accumulator.set(n)
AccumulatorSet(m, value) ==
    IF Raised(m) THEN m
    ELSE LET r == Register_set(m.accumulator, MAX_FOUR_BIT_VALUE, value)
         IN  [m EXCEPT !.accumulator = r.value, !.exc = r.exc]

\* self.accumulator.increment()
AccumulatorIncrement(m) ==
    IF Raised(m) THEN m
    ELSE LET r == Register_increment(m.accumulator, MAX_FOUR_BIT_VALUE)
         IN  [m EXCEPT !.accumulator = r.value, !.exc = r.exc]

\* self.carry.set(n)
CarrySet(m, value) ==
    IF Raised(m) THEN m
    ELSE LET r == Register_set(m.carry, MAX_ONE_BIT_VALUE, value)
         IN  [m EXCEPT !.carry = r.value, !.exc = r.exc]

\* self.test_pin.set(n)
TestPinSet(m, value) ==
    IF Raised(m) THEN m
    ELSE LET r == Register_set(m.test_pin, MAX_ONE_BIT_VALUE, value)
         IN  [m EXCEPT !.test_pin = r.value, !.exc = r.exc]

\* self.data_pointer.set(n)
DataPointerSet(m, value) ==
    IF Raised(m) THEN m
    ELSE LET r == Register_set(m.data_pointer, MAX_EIGHT_BIT_VALUE, value)
         IN  [m EXCEPT !.data_pointer = r.value, !.exc = r.exc]

\* self.program_counter.set(n)
ProgramCounterSet(m, value) ==
    IF Raised(m) THEN m
    ELSE LET r == Register_set(m.program_counter, MAX_TWELVE_BIT_VALUE, value)
         IN  [m EXCEPT !.program_counter = r.value, !.exc = r.exc]

\* self.program_counter.increment()
ProgramCounterIncrement(m) ==
    IF Raised(m) THEN m
    ELSE LET r == Register_increment(m.program_counter, MAX_TWELVE_BIT_VALUE)
         IN  [m EXCEPT !.program_counter = r.value, !.exc = r.exc]

\* self.four_bit_registers[f'{i}'].set(n)
FourBitSet(m, i, value) ==
    IF Raised(m) THEN m
    ELSE LET r == Register_set(m.four_bit_registers[i], MAX_FOUR_BIT_VALUE, value)
         IN  [m EXCEPT !.four_bit_registers[i] = r.value, !.exc = r.exc]

\* self.four_bit_registers[f'{i}'].increment()
FourBitIncrement(m, i) ==
    IF Raised(m) THEN m
    ELSE LET r == Register_increment(m.four_bit_registers[i], MAX_FOUR_BIT_VALUE)
         IN  [m EXCEPT !.four_bit_registers[i] = r.value, !.exc = r.exc]

\* EightBitPhantomRegister.get of pair f'{p}P': high is register 2p, low 2p+1
EightBitPhantomRegister_get(m, p) ==
    ShiftLeft(m.four_bit_registers[p * 2], 4) + m.four_bit_registers[p * 2 + 1]

\* a composite set() that stores the low nibble in the high delegate and the
\* high nibble in the low one
EightBitPhantomRegister_set_SwapsNibbles(m, p, value) ==
    IF Raised(m) THEN m
    ELSE IF value.type # "int" THEN Raise(m, "ValueInvalid")
    ELSE IF value.v < 0 THEN Raise(m, "ValueOutOfBounds")
    ELSE IF value.v > MAX_EIGHT_BIT_VALUE THEN Raise(m, "ValueOutOfBounds")
    ELSE FourBitSet(FourBitSet(m, p * 2, PyInt(BitAnd(value.v, \h0F))),
                    p * 2 + 1, PyInt(ShiftRight(value.v, 4)))

\* EightBitPhantomRegister.set of pair f'{p}P'
EightBitPhantomRegister_set(m, p, value) ==
    IF Raised(m) THEN m
    ELSE IF value.type # "int" THEN Raise(m, "ValueInvalid")
    ELSE IF value.v < 0 THEN Raise(m, "ValueOutOfBounds")
    ELSE IF value.v > MAX_EIGHT_BIT_VALUE THEN Raise(m, "ValueOutOfBounds")
    ELSE FourBitSet(FourBitSet(m, p * 2, PyInt(ShiftRight(value.v, 4))),
                    p * 2 + 1, PyInt(BitAnd(value.v, \h0F)))

\* self.stack.push(n)
StackPush(m, value) ==
    IF Raised(m) THEN m
    ELSE LET r == CircularBuffer_push(m.stack, value)
         IN  [m EXCEPT !.stack = r.stack, !.exc = r.exc]

----------------------------------------------------------------------------
(* emulator.py: the opcode handlers, ordered as in the source *)

\* NOP that clears the carry
opcode_noop_ClearsCarry(m) == CarrySet(m, PyInt(0))

\* 0x00 NOP
opcode_noop(m) == m

\* JCN with the selected conditions OR-ed together instead of overwritten
jcn_result_Or(m, condition) ==
    LET r1 == BitAnd(condition, \h01) # 0 /\ m.test_pin = 0
        r2 == BitAnd(condition, \h02) # 0 /\ m.carry = 1
        r3 == BitAnd(condition, \h04) # 0 /\ m.accumulator = 0
    IN  IF BitAnd(condition, \h08) # 0 THEN ~(r1 \/ r2 \/ r3) ELSE (r1 \/ r2 \/ r3)

\* JCN that looks at the test pin after the carry and the accumulator
jcn_result_TestPinLast(m, condition) ==
    LET r0 == FALSE
        r2 == IF BitAnd(condition, \h02) # 0 THEN m.carry = 1 ELSE r0
        r3 == IF BitAnd(condition, \h04) # 0 THEN m.accumulator = 0 ELSE r2
        r1 == IF BitAnd(condition, \h01) # 0 THEN m.test_pin = 0 ELSE r3
    IN  IF BitAnd(condition, \h08) # 0 THEN ~r1 ELSE r1

\* JCN: the condition as the four ifs compute it
jcn_result(m, condition) ==
    LET r0 == FALSE
        r1 == IF BitAnd(condition, \h01) # 0 THEN m.test_pin = 0 ELSE r0
        r2 == IF BitAnd(condition, \h02) # 0 THEN m.carry = 1 ELSE r1
        r3 == IF BitAnd(condition, \h04) # 0 THEN m.accumulator = 0 ELSE r2
    IN  IF BitAnd(condition, \h08) # 0 THEN ~r3 ELSE r3

\* JCN taking the page from the counter before the operand byte is consumed
opcode_jcn_PageBeforeOperand(m, condition) ==
    LET possible_address == RomAt(m.rom, m.program_counter)
        m1 == ProgramCounterIncrement(m)
    IN  IF Raised(m1) THEN m1
        ELSE IF jcn_result(m1, condition)
        THEN ProgramCounterSet(
                 m1, PyInt(BitAnd(m.program_counter, \h0F00) + possible_address))
        ELSE m1

\* 0x1_ JCN
opcode_jcn(m, condition) ==
    LET possible_address == RomAt(m.rom, m.program_counter)
        m1 == ProgramCounterIncrement(m)
    IN  IF Raised(m1) THEN m1
        ELSE IF jcn_result(m1, condition)
        THEN ProgramCounterSet(
                 m1, PyInt(BitAnd(m1.program_counter, \h0F00) + possible_address))
        ELSE m1

\* FIM that leaves pc on its operand byte
opcode_fim_KeepsPc(m, eight_bit_register) ==
    LET value == RomAt(m.rom, m.program_counter)
    IN  EightBitPhantomRegister_set(m, eight_bit_register, PyInt(value))

\* 0x2_ FIM
opcode_fim(m, eight_bit_register) ==
    LET value == RomAt(m.rom, m.program_counter)
    IN  ProgramCounterIncrement(
            EightBitPhantomRegister_set(m, eight_bit_register, PyInt(value)))

\* JIN that keeps the page of the address it was fetched at
opcode_jin_PageOfInstruction(m, eight_bit_register) ==
    LET address == BitOr(BitAnd(m.program_counter - 1, \h0F00),
                         EightBitPhantomRegister_get(m, eight_bit_register))
    IN  ProgramCounterSet(m, PyInt(address))

\* 0x3_ JIN
opcode_jin(m, eight_bit_register) ==
    LET address == BitOr(BitAnd(m.program_counter, \h0F00),
                         EightBitPhantomRegister_get(m, eight_bit_register))
    IN  ProgramCounterSet(m, PyInt(address))

\* JMS that pushes the address of its own operand byte
opcode_jms_ReturnsToOperand(m, top_four_bits_of_address) ==
    LET new_address == ShiftLeft(top_four_bits_of_address, 8)
                       + RomAt(m.rom, m.program_counter)
        return_address == m.program_counter
    IN  ProgramCounterSet(StackPush(m, PyInt(return_address)), PyInt(new_address))

\* 0x5_ JMS
opcode_jms(m, top_four_bits_of_address) ==
    LET new_address == ShiftLeft(top_four_bits_of_address, 8)
                       + RomAt(m.rom, m.program_counter)
        return_address == m.program_counter + 1
    IN  ProgramCounterSet(StackPush(m, PyInt(return_address)), PyInt(new_address))

\* INC that sets the carry when the register wraps
opcode_inc_CarryOnWrap(m, four_bit_register) ==
    LET m1 == FourBitIncrement(m, four_bit_register)
    IN  IF m1.exc = "ValueOutOfBounds"
        THEN CarrySet(FourBitSet(Raise(m1, "none"), four_bit_register, PyInt(0)),
                      PyInt(1))
        ELSE m1

\* 0x6_ INC: the increment, and set(0) when it raises ValueOutOfBounds
opcode_inc(m, four_bit_register) ==
    LET m1 == FourBitIncrement(m, four_bit_register)
    IN  IF m1.exc = "ValueOutOfBounds"
        THEN FourBitSet(Raise(m1, "none"), four_bit_register, PyInt(0))
        ELSE m1

\* JUN that keeps the page it is in
opcode_jun_KeepsPage(m, top_four_bits_of_address) ==
    LET address == BitAnd(m.program_counter, \h0F00)
                   + RomAt(m.rom, m.program_counter)
    IN  ProgramCounterSet(m, PyInt(address))

\* 0x4_ JUN
opcode_jun(m, top_four_bits_of_address) ==
    LET address == ShiftLeft(top_four_bits_of_address, 8)
                   + RomAt(m.rom, m.program_counter)
    IN  ProgramCounterSet(m, PyInt(address))

\* ADD that stores the sum as it is when it overflows
opcode_add_KeepsOverflow(m, four_bit_register) ==
    LET value == m.accumulator + m.carry + m.four_bit_registers[four_bit_register]
    IN  IF value > MAX_FOUR_BIT_VALUE
        THEN AccumulatorSet(CarrySet(m, PyInt(1)), PyInt(value))
        ELSE AccumulatorSet(m, PyInt(value))

\* ADD that clears the carry when the sum does not overflow
opcode_add_ClearsCarry(m, four_bit_register) ==
    LET value == m.accumulator + m.carry + m.four_bit_registers[four_bit_register]
    IN  IF value > MAX_FOUR_BIT_VALUE
        THEN AccumulatorSet(CarrySet(m, PyInt(1)), PyInt(value - 2^4))
        ELSE AccumulatorSet(CarrySet(m, PyInt(0)), PyInt(value))

\* 0x8_ ADD
opcode_add(m, four_bit_register) ==
    LET value == m.accumulator + m.carry + m.four_bit_registers[four_bit_register]
    IN  IF value > MAX_FOUR_BIT_VALUE
        THEN AccumulatorSet(CarrySet(m, PyInt(1)), PyInt(value - 2^4))
        ELSE AccumulatorSet(m, PyInt(value))

\* SUB adding the carry itself instead of its complement
opcode_sub_CarryNotInverted(m, four_bit_register) ==
    LET register == Register_get_inverted(m.four_bit_registers[four_bit_register], 4)
        c == m.carry
        value == m.accumulator + register + c
    IN  IF BitAnd(value, \b00010000) = 0
        THEN AccumulatorSet(CarrySet(m, PyInt(0)), PyInt(value))
        ELSE AccumulatorSet(CarrySet(m, PyInt(1)), PyInt(value - \b00010000))

\* 0x9_ SUB
opcode_sub(m, four_bit_register) ==
    LET register == Register_get_inverted(m.four_bit_registers[four_bit_register], 4)
        c == Register_get_inverted(m.carry, 1)
        value == m.accumulator + register + c
    IN  IF BitAnd(value, \b00010000) = 0
        THEN AccumulatorSet(CarrySet(m, PyInt(0)), PyInt(value))
        ELSE AccumulatorSet(CarrySet(m, PyInt(1)), PyInt(value - \b00010000))

\* 0xA_ LD
opcode_ld(m, four_bit_register) ==
    AccumulatorSet(m, PyInt(m.four_bit_registers[four_bit_register]))

\* XCH that loads the accumulator and leaves the register as it was
opcode_xch_KeepsRegister(m, four_bit_register) ==
    AccumulatorSet(m, PyInt(m.four_bit_registers[four_bit_register]))

\* 0xB_ XCH
opcode_xch(m, four_bit_register) ==
    LET r == m.four_bit_registers[four_bit_register]
    IN  AccumulatorSet(FourBitSet(m, four_bit_register, PyInt(m.accumulator)),
                       PyInt(r))

\* BBL that returns without loading its immediate
opcode_bbl_KeepsAccumulator(m, value) ==
    LET p == CircularBuffer_pop(m.stack)
    IN  ProgramCounterSet([m EXCEPT !.stack = p.stack], PyInt(p.value))

\* 0xC_ BBL
opcode_bbl(m, value) ==
    LET p == CircularBuffer_pop(m.stack)
    IN  AccumulatorSet(ProgramCounterSet([m EXCEPT !.stack = p.stack], PyInt(p.value)),
                       PyInt(value))

\* 0xD_ LDM
opcode_ldm(m, value) == AccumulatorSet(m, PyInt(value))

\* 0xF0 CLB
opcode_clb(m) == AccumulatorSet(CarrySet(m, PyInt(0)), PyInt(0))

\* CLC that leaves the carry as it is
opcode_clc_KeepsCarry(m) == m

\* CLC that clears the test pin as well
opcode_clc_ClearsTestPin(m) == TestPinSet(CarrySet(m, PyInt(0)), PyInt(0))

\* 0xF1 CLC
opcode_clc(m) == CarrySet(m, PyInt(0))

\* IAC that wraps from 15 to 0 and sets the carry
opcode_iac_Wraps(m) ==
    IF m.accumulator = MAX_FOUR_BIT_VALUE
    THEN CarrySet(AccumulatorSet(m, PyInt(0)), PyInt(1))
    ELSE AccumulatorIncrement(m)

\* 0xF2 IAC
opcode_iac(m) == AccumulatorIncrement(m)

\* DAC wrapping from 0 to 0xF
opcode_dac_WrapsToF(m) ==
    LET acc == m.accumulator - 1
    IN  IF acc < 0
        THEN AccumulatorSet(CarrySet(m, PyInt(0)), PyInt(\hF))
        ELSE AccumulatorSet(CarrySet(m, PyInt(1)), PyInt(acc))

\* 0xF8 DAC
opcode_dac(m) ==
    LET acc == m.accumulator - 1
    IN  IF acc < 0
        THEN AccumulatorSet(CarrySet(m, PyInt(0)), PyInt(\hE))
        ELSE AccumulatorSet(CarrySet(m, PyInt(1)), PyInt(acc))

----------------------------------------------------------------------------
(* emulator.py: OpcodeRegistry and the registrations of Intel4004.__init__ *)

\* a bound handler: partial(self.<fn>, arg); arg is 0 for the handlers that take none
Handler(fn, arg) == [fn |-> fn, arg |-> arg]

OpcodeRegistry_register(registry, opcode, function) ==
    IF Raised(registry) THEN registry
    ELSE IF opcode \in DOMAIN registry.opcodes
    THEN Raise(registry, "OpcodeCollision")
    ELSE [registry EXCEPT !.opcodes = (opcode :> function) @@ registry.opcodes]

\* the register() calls of __init__ in the order the constructor makes them
RECURSIVE Flatten(_)
Flatten(ss) == IF ss = <<>> THEN <<>> ELSE Head(ss) \o Flatten(Tail(ss))

\* the register() calls with the jump families looping over all sixteen
\* encodings
Registrations_AllSixteen ==
    << <<\h00, Handler("opcode_noop", 0)>>,
       <<\hF0, Handler("opcode_clb", 0)>>,
       <<\hF1, Handler("opcode_clc", 0)>>,
       <<\hF2, Handler("opcode_iac", 0)>>,
       <<\hF8, Handler("opcode_dac", 0)>> >>
    \o Flatten([k \in 1..16 |->
           LET i == k - 1
           IN  << <<\h60 + i, Handler("opcode_inc", i)>>,
                  <<\h80 + i, Handler("opcode_add", i)>>,
                  <<\h90 + i, Handler("opcode_sub", i)>>,
                  <<\hA0 + i, Handler("opcode_ld", i)>>,
                  <<\hB0 + i, Handler("opcode_xch", i)>> >>])
    \o Flatten([k \in 1..8 |->
           LET i == k - 1
               register == ShiftLeft(i, 1)
           IN  << <<BitOr(\h20, register), Handler("opcode_fim", i)>>,
                  <<BitOr(BitOr(\h30, register), \h01), Handler("opcode_jin", i)>> >>])
    \o Flatten([k \in 1..16 |->
           LET i == k - 1
           IN  << <<\hC0 + i, Handler("opcode_bbl", i)>>,
                  <<\hD0 + i, Handler("opcode_ldm", i)>> >>])
    \o Flatten([k \in 1..(2^4) |->
           LET i == k - 1
           IN  << <<\h10 + i, Handler("opcode_jcn", i)>>,
                  <<\h40 + i, Handler("opcode_jun", i)>>,
                  <<\h50 + i, Handler("opcode_jms", i)>> >>])

\* the register() calls of __init__, in source order
Registrations ==
    << <<\h00, Handler("opcode_noop", 0)>>,
       <<\hF0, Handler("opcode_clb", 0)>>,
       <<\hF1, Handler("opcode_clc", 0)>>,
       <<\hF2, Handler("opcode_iac", 0)>>,
       <<\hF8, Handler("opcode_dac", 0)>> >>
    \o Flatten([k \in 1..16 |->
           LET i == k - 1
           IN  << <<\h60 + i, Handler("opcode_inc", i)>>,
                  <<\h80 + i, Handler("opcode_add", i)>>,
                  <<\h90 + i, Handler("opcode_sub", i)>>,
                  <<\hA0 + i, Handler("opcode_ld", i)>>,
                  <<\hB0 + i, Handler("opcode_xch", i)>> >>])
    \o Flatten([k \in 1..8 |->
           LET i == k - 1
               register == ShiftLeft(i, 1)
           IN  << <<BitOr(\h20, register), Handler("opcode_fim", i)>>,
                  <<BitOr(BitOr(\h30, register), \h01), Handler("opcode_jin", i)>> >>])
    \o Flatten([k \in 1..16 |->
           LET i == k - 1
           IN  << <<\hC0 + i, Handler("opcode_bbl", i)>>,
                  <<\hD0 + i, Handler("opcode_ldm", i)>> >>])
    \o Flatten([k \in 1..(2^4 - 1) |->
           LET i == k - 1
           IN  << <<\h10 + i, Handler("opcode_jcn", i)>>,
                  <<\h40 + i, Handler("opcode_jun", i)>>,
                  <<\h50 + i, Handler("opcode_jms", i)>> >>])

\* the calls from the lo-th to the hi-th, in order; once a call has raised,
\* the later ones are not made (OpcodeRegistry_register skips them)
RECURSIVE RegisterRange(_, _, _)
RegisterRange(registry, lo, hi) ==
    IF lo = hi
    THEN OpcodeRegistry_register(registry, Registrations[lo][1], Registrations[lo][2])
    ELSE LET mid == (lo + hi) \div 2
             r == RegisterRange(registry, lo, mid)
         IN  IF Raised(r) THEN r ELSE RegisterRange(r, mid + 1, hi)

\* self._dispatch_map once __init__ has run
dispatch_map ==
    RegisterRange([opcodes |-> <<>>, exc |-> "none"], 1, Len(Registrations))

\* calling the handler lookup() returned
Invoke(m, h) ==
    CASE h.fn = "opcode_noop" -> opcode_noop(m)
      [] h.fn = "opcode_clb"  -> opcode_clb(m)
      [] h.fn = "opcode_clc"  -> opcode_clc(m)
      [] h.fn = "opcode_iac"  -> opcode_iac(m)
      [] h.fn = "opcode_dac"  -> opcode_dac(m)
      [] h.fn = "opcode_inc"  -> opcode_inc(m, h.arg)
      [] h.fn = "opcode_add"  -> opcode_add(m, h.arg)
      [] h.fn = "opcode_sub"  -> opcode_sub(m, h.arg)
      [] h.fn = "opcode_ld"   -> opcode_ld(m, h.arg)
      [] h.fn = "opcode_xch"  -> opcode_xch(m, h.arg)
      [] h.fn = "opcode_fim"  -> opcode_fim(m, h.arg)
      [] h.fn = "opcode_jin"  -> opcode_jin(m, h.arg)
      [] h.fn = "opcode_bbl"  -> opcode_bbl(m, h.arg)
      [] h.fn = "opcode_ldm"  -> opcode_ldm(m, h.arg)
      [] h.fn = "opcode_jcn"  -> opcode_jcn(m, h.arg)
      [] h.fn = "opcode_jun"  -> opcode_jun(m, h.arg)
      [] h.fn = "opcode_jms"  -> opcode_jms(m, h.arg)

\* OpcodeRegistry.lookup followed by the call of what it returned
lookup_and_call(m, opcode) ==
    IF Raised(m) THEN m
    ELSE IF opcode \notin DOMAIN dispatch_map.opcodes THEN Raise(m, "UnknownOpcode")
    ELSE Invoke(m, dispatch_map.opcodes[opcode])

\* Intel4004.step
step(m) ==
    LET opcode == RomAt(m.rom, m.program_counter)
    IN  lookup_and_call(ProgramCounterIncrement(m), opcode)

----------------------------------------------------------------------------
(* The state machine *)

\* Intel4004.__init__: every register is built with the default value 0
FreshMachine ==
    [accumulator |-> FourBitRegister(PyInt(0)).value,
     carry |-> OneBitRegister(PyInt(0)).value,
     test_pin |-> OneBitRegister(PyInt(0)).value,
     data_pointer |-> EightBitRegister(PyInt(0)).value,
     program_counter |-> TwelveBitRegister(PyInt(0)).value,
     four_bit_registers |-> [i \in 0..15 |-> FourBitRegister(PyInt(0)).value],
     stack |-> [registers |-> [i \in 0..(STACK_SLOTS - 1) |->
                                  TwelveBitRegister(PyInt(0)).value],
                cursor |-> 0],
     rom |-> <<>>,
     exc |-> dispatch_map.exc]

\* no register object has been built on its own yet
NoRegister == [made |-> FALSE, num_bits |-> 0, max_value |-> 0, value |-> 0]

\* the machine the variables hold
Machine ==
    [accumulator |-> accumulator, carry |-> carry, test_pin |-> test_pin,
     data_pointer |-> data_pointer, program_counter |-> program_counter,
     four_bit_registers |-> four_bit_registers, stack |-> stack, rom |-> rom,
     exc |-> "none"]

\* the variables take the fields of m
Commit(m) ==
    /\ accumulator' = m.accumulator
    /\ carry' = m.carry
    /\ test_pin' = m.test_pin
    /\ data_pointer' = m.data_pointer
    /\ program_counter' = m.program_counter
    /\ four_bit_registers' = m.four_bit_registers
    /\ stack' = m.stack
    /\ rom' = m.rom

\* what last records of a call: its name and the exception it raised; for
\* step() the byte it fetched and the machine it started from; for a call on
\* the register built on its own the argument, the width of the register's
\* class and the register before the call; for a call on one register of a
\* family its index in the family
Call(call, exc, opcode, arg, cls, old, pre, index) ==
    [call |-> call, exc |-> exc, opcode |-> opcode, arg |-> arg, cls |-> cls,
     old |-> old, pre |-> pre, index |-> index]

\* no call is remembered
NoCall == Call("none", "none", -1, PyInt(0), 0, NoRegister, FreshMachine, -1)

\* no subroutine call has returned in the last call
NoFrame == [ret |-> -1, cursor |-> -1, depth |-> 0, peak |-> 0, deepest |-> -1]

\* no subroutine call is pending
NoCalls == [frames |-> <<>>, peak |-> 0, deepest |-> -1, returned |-> NoFrame]

\* a call that pushes a return address is remembered with the address it
\* has to come back to and the place of the cursor when it was made; peak
\* is the deepest nesting reached since no call was pending and deepest the
\* address the latest call made at that depth has to come back to
CallsPush(c, ret, cursor) ==
    [frames |-> Append(c.frames, [ret |-> ret, cursor |-> cursor]),
     peak |-> IF Len(c.frames) + 1 > c.peak THEN Len(c.frames) + 1 ELSE c.peak,
     deepest |-> IF Len(c.frames) + 1 >= c.peak THEN ret ELSE c.deepest,
     returned |-> NoFrame]

\* a return forgets the innermost pending call and remembers it as returned,
\* with its depth and the peak of the nesting it belonged to
CallsPop(c) ==
    IF c.frames = <<>>
    THEN NoCalls
    ELSE LET n == Len(c.frames)
         IN  [frames |-> SubSeq(c.frames, 1, n - 1),
              peak |-> IF n = 1 THEN 0 ELSE c.peak,
              deepest |-> IF n = 1 THEN -1 ELSE c.deepest,
              returned |-> [ret |-> c.frames[n].ret,
                            cursor |-> c.frames[n].cursor,
                            depth |-> n, peak |-> c.peak,
                            deepest |-> c.deepest]]

\* what a step() that fetched opcode at address a with the cursor at cursor
\* does to the pending calls: JMS (0x50..0x5E) that did not raise is a call
\* that has to come back to a + 2, BBL (0xC0..0xCF) is a return
CallsAfterStep(c, opcode, a, cursor, exc) ==
    IF exc # "none" THEN [c EXCEPT !.returned = NoFrame]
    ELSE IF opcode \in \h50..\h5E THEN CallsPush(c, a + 2, cursor)
    ELSE IF opcode \in \hC0..\hCF THEN CallsPop(c)
    ELSE [c EXCEPT !.returned = NoFrame]

Init ==
    /\ accumulator = FreshMachine.accumulator
    /\ carry = FreshMachine.carry
    /\ test_pin = FreshMachine.test_pin
    /\ data_pointer = FreshMachine.data_pointer
    /\ program_counter = FreshMachine.program_counter
    /\ four_bit_registers = FreshMachine.four_bit_registers
    /\ stack = FreshMachine.stack
    /\ rom = FreshMachine.rom
    /\ reg = NoRegister
    /\ last = Call("__init__", FreshMachine.exc, -1, PyInt(0), 0, NoRegister,
                   FreshMachine, -1)
    /\ prev = NoCall
    /\ calls = NoCalls
    /\ steps = 0

\* a call on the machine other than step(): m is the machine it leaves
HarnessCall(call, arg, m) ==
    /\ Commit(m)
    /\ last' = Call(call, m.exc, -1, PyInt(0), 0, NoRegister, FreshMachine, -1)
    /\ prev' = NoCall
    /\ UNCHANGED <<reg, calls, steps>>

\* em.accumulator.set(v)
SetAccumulator(V) ==
    \E v \in V : HarnessCall("set", v, AccumulatorSet(Machine, v))

\* em.carry.set(v)
SetCarry(V) ==
    \E v \in V : HarnessCall("set", v, CarrySet(Machine, v))

\* em.test_pin.set(v)
SetTestPin(V) ==
    \E v \in V : HarnessCall("set", v, TestPinSet(Machine, v))

\* em.data_pointer.set(v)
SetDataPointer(V) ==
    \E v \in V : HarnessCall("set", v, DataPointerSet(Machine, v))

\* em.program_counter.set(v)
SetProgramCounter(V) ==
    \E v \in V : HarnessCall("set", v, ProgramCounterSet(Machine, v))

\* em.four_bit_registers[f'{i}'].set(v)
SetFourBit(I, V) ==
    \E i \in I, v \in V :
        HarnessCall("set", v, FourBitSet(Machine, i, v))

\* em.eight_bit_registers[f'{p}P'].set(v)
SetEightBit(P, V) ==
    \E p \in P, v \in V :
        HarnessCall("set", v,
                    EightBitPhantomRegister_set(Machine, p, v))

\* em.eight_bit_registers[f'{p}P'].set(v), remembered with its argument,
\* the pair it was called on and the machine it started from
CallPairSet(P, V) ==
    \E p \in P, v \in V :
        LET m == EightBitPhantomRegister_set(Machine, p, v)
        IN  /\ Commit(m)
            /\ last' = Call("EightBitPhantomRegister.set", m.exc, -1, v, 8,
                            NoRegister, Machine, p)
            /\ prev' = NoCall
            /\ UNCHANGED <<reg, calls, steps>>

\* em.stack.registers[i].set(v)
SetStackSlot(I, V) ==
    \E i \in I, v \in V :
        LET r == Register_set(stack.registers[i], MAX_TWELVE_BIT_VALUE, v)
        IN  HarnessCall("set", v,
                        [Machine EXCEPT !.stack.registers[i] = r.value,
                                        !.exc = r.exc])

\* the harness is still arranging: no image loaded, no step made
Arranging == rom = FreshMachine.rom /\ steps = 0

\* em.set_rom(em.program_counter.get(), image): the image is loaded where the
\* program counter points, once, on the zeroed store, before any step
LoadRom(Images) ==
    /\ Arranging
    /\ \E image \in Images :
           LET r == set_rom(rom, program_counter, image)
           IN  HarnessCall("set_rom", PyInt(program_counter),
                           [Machine EXCEPT !.rom = r.rom, !.exc = r.exc])

\* em.set_rom(address, image) for every segment of a program, in order
RECURSIVE LoadSegments(_, _)
LoadSegments(r, segments) ==
    IF segments = <<>> THEN [rom |-> r, exc |-> "none"]
    ELSE LET s == set_rom(r, segments[1].address, segments[1].image)
         IN  IF s.exc # "none" THEN s
             ELSE LoadSegments(s.rom, Tail(segments))

\* the segments of one program are loaded, once, on the zeroed store,
\* before any step
LoadProgram(Programs) ==
    /\ Arranging
    /\ \E program \in Programs :
           LET r == LoadSegments(rom, program)
           IN  HarnessCall("set_rom", PyInt(0),
                           [Machine EXCEPT !.rom = r.rom, !.exc = r.exc])

\* the argument list of set_rom(address, image)
PyRomArgs(address, image) == [type |-> "set_rom", v |-> address, bytes |-> image]

\* em.set_rom(address, image) on a fresh store or on the store the first
\* load left, remembered with its arguments and the machine it started from
CallSetRom(Addresses, Images) ==
    /\ \/ last.call = "__init__"
       \/ last.call = "Intel4004.set_rom" /\ last.pre.rom = FreshMachine.rom
    /\ \E address \in Addresses, image \in Images :
           LET r == set_rom(rom, address, image)
           IN  /\ Commit([Machine EXCEPT !.rom = r.rom])
               /\ last' = Call("Intel4004.set_rom", r.exc, -1,
                               PyRomArgs(address, image), 0, NoRegister,
                               Machine, -1)
    /\ prev' = NoCall
    /\ UNCHANGED <<reg, calls, steps>>

\* em.stack.push(v), while fewer than n pushes wait for their pop
CallPush(V, n) ==
    /\ Len(calls.frames) < n
    /\ \E v \in V :
           LET m == StackPush(Machine, v)
           IN  /\ Commit(m)
               /\ last' = Call("CircularBuffer.push", m.exc, -1, v, 12,
                               NoRegister, Machine, -1)
               /\ calls' = IF m.exc = "none"
                           THEN CallsPush(calls, v.v, stack.cursor)
                           ELSE [calls EXCEPT !.returned = NoFrame]
    /\ prev' = NoCall
    /\ UNCHANGED <<reg, steps>>

\* em.stack.pop(); last remembers the value returned in place of an argument
CallPop ==
    /\ LET p == CircularBuffer_pop(stack)
       IN  /\ Commit([Machine EXCEPT !.stack = p.stack])
           /\ last' = Call("CircularBuffer.pop", "none", -1, PyInt(p.value), 12,
                           NoRegister, Machine, -1)
    /\ calls' = CallsPop(calls)
    /\ prev' = NoCall
    /\ UNCHANGED <<reg, steps>>

\* a call on the register built on its own: r is what the call leaves
RegisterCall(call, arg, cls, r, exc) ==
    /\ reg' = r
    /\ last' = Call(call, exc, -1, arg, cls, reg, FreshMachine, -1)
    /\ prev' = NoCall
    /\ UNCHANGED <<accumulator, carry, test_pin, data_pointer, program_counter,
                   four_bit_registers, stack, rom, calls, steps>>

\* r = reg_class('0', v) for the four classes that own a value; when the
\* constructor raises, r is not bound and keeps what it named before
ConstructRegister(V) ==
    \E v \in V :
        \E new \in {OneBitRegister(v), FourBitRegister(v), EightBitRegister(v),
                    TwelveBitRegister(v)} :
            RegisterCall("Register.__init__", v, new.num_bits,
                         IF new.made
                         THEN [made |-> TRUE, num_bits |-> new.num_bits,
                               max_value |-> new.max_value, value |-> new.value]
                         ELSE reg,
                         new.exc)

\* r.set(v)
CallRegisterSet(V) ==
    /\ reg.made
    /\ \E v \in V :
           LET r == Register_set(reg.value, reg.max_value, v)
           IN  RegisterCall("Register.set", v, reg.num_bits,
                            [reg EXCEPT !.value = r.value], r.exc)

\* r.increment(), called when r holds one of the values V
CallRegisterIncrement(V) ==
    /\ reg.made
    /\ PyInt(reg.value) \in V
    /\ LET r == Register_increment(reg.value, reg.max_value)
       IN  RegisterCall("Register.increment", PyInt(0), reg.num_bits,
                        [reg EXCEPT !.value = r.value], r.exc)

\* r.decrement(), called when r holds one of the values V
CallRegisterDecrement(V) ==
    /\ reg.made
    /\ PyInt(reg.value) \in V
    /\ LET r == Register_decrement(reg.value, reg.max_value)
       IN  RegisterCall("Register.decrement", PyInt(0), reg.num_bits,
                        [reg EXCEPT !.value = r.value], r.exc)

\* r.get_inverted(): r is left as it is; last remembers the value returned
\* in place of an argument, prev the call before
CallGetInverted ==
    /\ reg.made
    /\ last' = Call("Register.get_inverted", "none", -1,
                    PyInt(Register_get_inverted(reg.value, reg.num_bits)),
                    reg.num_bits, reg, FreshMachine, -1)
    /\ prev' = last
    /\ UNCHANGED <<accumulator, carry, test_pin, data_pointer, program_counter,
                   four_bit_registers, stack, rom, reg, calls, steps>>

\* r.set(r.get_inverted())
CallStoreInverted ==
    /\ reg.made
    /\ LET inverted == Register_get_inverted(reg.value, reg.num_bits)
           r == Register_set(reg.value, reg.max_value, PyInt(inverted))
       IN  RegisterCall("Register.set(Register.get_inverted())", PyInt(inverted),
                        reg.num_bits, [reg EXCEPT !.value = r.value], r.exc)

\* em.step(), while fewer than n calls of it have been made
StepWithin(n) ==
    /\ steps < n
    /\ LET m == step(Machine)
       IN  /\ Commit(m)
           /\ last' = Call("step", m.exc, RomAt(rom, program_counter), PyInt(0),
                           0, NoRegister, Machine, -1)
           /\ calls' = CallsAfterStep(calls, RomAt(rom, program_counter),
                                      program_counter, stack.cursor, m.exc)
    /\ prev' = last
    /\ steps' = steps + 1
    /\ UNCHANGED reg

\* em.step()
Step == StepWithin(MaxSteps)

----------------------------------------------------------------------------
(* Specification Spec: a harness that sets registers, successfully or not, *)
(* loads one image and calls step().  The image starts with any of the    *)
(* 256 bytes, registered or not, followed by the operand byte 0xFF, and is *)
(* loaded at address 0, at 4094 or at 4095, the last address of the store. *)

Ints(S) == {PyInt(n) : n \in S}

GenOpcodes == 0..255

GenImages == {<<op, \hFF>> : op \in GenOpcodes}

\* the registers are set before the image is loaded; between two steps the
\* harness sets the carry (as test_emulator.py does in its INC test)
Next ==
    \/ Arranging /\ SetAccumulator(Ints({-1, 15, 16}) \cup {PyStr})
    \/ SetCarry(Ints({1, 2}))
    \/ Arranging /\ SetTestPin(Ints({1, 2}))
    \/ Arranging /\ SetProgramCounter(Ints({4094, 4095, 4096}))
    \/ Arranging /\ SetFourBit({15}, Ints({15, 16}))
    \/ Arranging /\ SetEightBit({0}, Ints({255, 256}))
    \/ Arranging /\ SetStackSlot({0}, Ints({4095, 4096}))
    \/ LoadRom(GenImages)
    \/ Step

Spec == Init /\ [][Next]_vars

\* C1: every register of the machine holds a value within its width
TypeOK ==
    /\ accumulator \in 0..15
    /\ \A i \in 0..15 : four_bit_registers[i] \in 0..15
    /\ carry \in 0..1
    /\ test_pin \in 0..1
    /\ program_counter \in 0..4095
    /\ \A i \in 0..2 : stack.registers[i] \in 0..4095
    /\ \A p \in 0..7 :
           /\ EightBitPhantomRegister_get(Machine, p)
                  = 16 * four_bit_registers[2 * p] + four_bit_registers[2 * p + 1]
           /\ EightBitPhantomRegister_get(Machine, p) \in 0..255

\* C1 is reached: a failed set() after a step, with registers at their maxima
C1_Witness ==
    /\ last.call = "set"
    /\ last.exc = "ValueOutOfBounds"
    /\ steps > 0
    /\ accumulator = 15
    /\ stack.registers[0] = 4095

\* the last call was a step() that fetched a byte with no registered handler
SteppedUnknown ==
    last.call = "step" /\ last.opcode \notin DOMAIN dispatch_map.opcodes

\* the step left every register but the program counter, the stack and the
\* instruction store as they were
OnlyPcChanged ==
    [Machine EXCEPT !.program_counter = last.pre.program_counter] = last.pre

\* C3: a step() on a byte with no handler, at any program counter p, fails
\* with UnknownOpcode and leaves the program counter at p + 1, everything
\* else unchanged
C3_UnknownOpcode ==
    SteppedUnknown =>
        /\ last.exc = "UnknownOpcode"
        /\ program_counter = last.pre.program_counter + 1
        /\ OnlyPcChanged

\* C4: a step() on NOP advances the program counter by 1 modulo 2^12: from
\* 4095 it completes and leaves 0
C4_FetchWraps ==
    (last.call = "step" /\ last.opcode = \h00) =>
        /\ last.exc = "none"
        /\ program_counter = (last.pre.program_counter + 1) % (2^12)

----------------------------------------------------------------------------
(* Specification SpecRegister: one register object of each class, built    *)
(* and written with values on both sides of every class's range.           *)

RegisterValues ==
    Ints({-2, -1, 0, 1, 2, 3, 14, 15, 16, 17, 254, 255, 256, 257,
          4094, 4095, 4096, 4097})
    \cup {PyStr}

NextRegister ==
    \/ ConstructRegister(RegisterValues)
    \/ CallRegisterSet(RegisterValues)
    \/ CallRegisterIncrement(RegisterValues)
    \/ CallRegisterDecrement(RegisterValues)

SpecRegister == Init /\ [][NextRegister]_vars

\* the value v is an integer within the range of a register of w bits
InRange(w, v) == v.type = "int" /\ 0 <= v.v /\ v.v <= 2^w - 1

\* C2: set(v) on a register of width w succeeds, and get() then returns v,
\* exactly when v is an integer with 0 <= v <= 2^w - 1; a set(v) that fails
\* leaves the value as it was; the constructor's initial value obeys the
\* same rule
C2_SetIffInRange ==
    /\ last.call = "Register.set" =>
           /\ last.cls \in {1, 4, 8, 12}
           /\ (last.exc = "none") <=> InRange(last.cls, last.arg)
           /\ last.exc = "none" => reg = [last.old EXCEPT !.value = last.arg.v]
           /\ last.exc # "none" => reg = last.old
    /\ last.call = "Register.__init__" =>
           /\ last.cls \in {1, 4, 8, 12}
           /\ (last.exc = "none") <=> InRange(last.cls, last.arg)
           /\ last.exc = "none" =>
                  /\ reg.made
                  /\ reg.num_bits = last.cls
                  /\ reg.value = last.arg.v
           /\ last.exc # "none" => reg = last.old

C2_Witness ==
    /\ last.call = "Register.set"
    /\ last.exc = "ValueOutOfBounds"
    /\ last.cls = 8
    /\ last.arg.v = 256
    /\ reg.value = 255

----------------------------------------------------------------------------
(* Specification SpecJcn: the conditional jump, every registered mask, at  *)
(* addresses inside a page, at the end of a page and at the end of the     *)
(* store, under every combination of test pin, carry and accumulator = 0.  *)

JcnImages == {<<\h10 + mask, b>> : mask \in 0..15, b \in {\h00, \h06, \h23, \hFF}}

NextJcn ==
    \/ Arranging /\ SetAccumulator(Ints({1, 15}))
    \/ Arranging /\ SetCarry(Ints({1}))
    \/ Arranging /\ SetTestPin(Ints({1}))
    \/ Arranging /\ SetProgramCounter(Ints({\hFE, \hFF, \h0B12, 4093, 4094}))
    \/ LoadRom(JcnImages)
    \/ Step

SpecJcn == Init /\ [][NextJcn]_vars

\* the last call was a step() that fetched JCN with a registered mask at an
\* address a with a + 2 <= 4095
SteppedJcn ==
    /\ last.call = "step"
    /\ last.opcode \in \h10..\h1E
    /\ last.pre.program_counter + 2 <= 4095

\* the address a conditional jump at a with operand byte b lands on
JcnTarget(a, b) == BitOr(BitAnd(a + 2, \hF00), b)

\* C5: a conditional jump at a with operand b, a + 2 <= 4095: when the
\* condition evaluated holds the program counter becomes ((a+2) & 0xF00) | b,
\* otherwise a + 2; no other register changes
C5_JcnTarget ==
    SteppedJcn =>
        LET a == last.pre.program_counter
            b == RomAt(last.pre.rom, a + 1)
        IN  /\ last.exc = "none"
            /\ program_counter = IF jcn_result(last.pre, last.opcode - \h10)
                                 THEN JcnTarget(a, b)
                                 ELSE a + 2
            /\ OnlyPcChanged

\* a taken jump stored at 0x0FE/0x0FF has landed in page 1, at 0x0106
C5_Witness ==
    /\ SteppedJcn
    /\ last.pre.program_counter = \hFE
    /\ last.opcode = \h1C
    /\ program_counter = \h0106

\* the condition of mask m as the claim states it: the highest-numbered set
\* bit among bits 0..2 decides, and bit 3 inverts
JumpCondition(mask, t, c, acc) ==
    LET decided == IF (mask \div 4) % 2 = 1 THEN acc = 0
                   ELSE IF (mask \div 2) % 2 = 1 THEN c = 1
                   ELSE IF mask % 2 = 1 THEN t = 0
                   ELSE FALSE
    IN  IF (mask \div 8) % 2 = 1 THEN ~decided ELSE decided

----------------------------------------------------------------------------
(* Specification SpecAlu: the one-byte accumulator instructions, from every *)
(* accumulator, every carry and every value of the register they name.     *)

AluOpcodes == {\h81, \h8E, \h91, \h9E, \hF8}

AluImages == {<<op>> : op \in AluOpcodes}

NextAlu ==
    \/ Arranging /\ SetAccumulator(Ints(0..15))
    \/ Arranging /\ SetCarry(Ints({0, 1}))
    \/ Arranging /\ SetFourBit({1}, Ints({0, 9, 15}))
    \/ Arranging /\ SetFourBit({14}, Ints(0..15))
    \/ Arranging /\ SetProgramCounter(Ints({\hFF, 4094}))
    \/ LoadRom(AluImages)
    \/ Step

SpecAlu == Init /\ [][NextAlu]_vars

\* the last call was a step() that fetched, below the last address of the
\* store, an opcode of the family that starts at base and names a register
SteppedFamily(base) ==
    /\ last.call = "step"
    /\ last.opcode \in base..(base + 15)
    /\ last.pre.program_counter < 4095

\* the step left the test pin, the data pointer, the stack and the
\* instruction store as they were and advanced the program counter by 1
OneByteFrame ==
    /\ program_counter = last.pre.program_counter + 1
    /\ test_pin = last.pre.test_pin
    /\ data_pointer = last.pre.data_pointer
    /\ stack = last.pre.stack
    /\ rom = last.pre.rom

\* C7: ADD r fetched at an address below 4095, for every accumulator a, carry
\* c and register value v, with s = a + c + v: the accumulator becomes
\* s mod 16, the carry becomes 1 when s > 15 and keeps c when s <= 15, the
\* index registers are unchanged, pc advances by 1 and nothing is raised
C7_Add ==
    SteppedFamily(\h80) =>
        LET r == last.opcode - \h80
            a == last.pre.accumulator
            c == last.pre.carry
            v == last.pre.four_bit_registers[r]
            s == a + c + v
        IN  /\ last.exc = "none"
            /\ accumulator = s % 16
            /\ carry = IF s > 15 THEN 1 ELSE c
            /\ four_bit_registers = last.pre.four_bit_registers
            /\ OneByteFrame

\* an add that does not overflow has left a carry of 1 set
C7_Witness ==
    /\ SteppedFamily(\h80)
    /\ last.pre.carry = 1
    /\ last.pre.accumulator = 6
    /\ last.pre.four_bit_registers[14] = 8
    /\ last.opcode = \h8E
    /\ accumulator = 15
    /\ carry = 1

\* C8: SUB r fetched at an address below 4095, for every accumulator a, carry
\* c and register value v, with raw = a + (15 - v) + (1 - c): the new carry
\* and accumulator satisfy 16 * carry' + acc' = raw, the carry being bit 4
\* of raw; the index registers are unchanged, pc advances by 1 and nothing
\* is raised
C8_Sub ==
    SteppedFamily(\h90) =>
        LET r == last.opcode - \h90
            a == last.pre.accumulator
            c == last.pre.carry
            v == last.pre.four_bit_registers[r]
            raw == a + (15 - v) + (1 - c)
        IN  /\ last.exc = "none"
            /\ carry = (raw \div 16) % 2
            /\ accumulator = raw % 16
            /\ 16 * carry + accumulator = raw
            /\ four_bit_registers = last.pre.four_bit_registers
            /\ OneByteFrame

\* a subtraction with a borrow has cleared a carry that was 1
C8_Witness ==
    /\ SteppedFamily(\h90)
    /\ last.opcode = \h9E
    /\ last.pre.carry = 1
    /\ last.pre.accumulator = 6
    /\ last.pre.four_bit_registers[14] = 10
    /\ accumulator = 11
    /\ carry = 0

\* the last call was a step() that fetched DAC below the last address
SteppedDac ==
    /\ last.call = "step"
    /\ last.opcode = \hF8
    /\ last.pre.program_counter < 4095

C10_Dac ==
    SteppedDac =>
        LET a == last.pre.accumulator
        IN  /\ accumulator = (a - 1) % 16
            /\ carry = IF a # 0 THEN 1 ELSE 0

----------------------------------------------------------------------------
(* Specification SpecAcc: the accumulator, the carry and three index       *)
(* registers are set, an image of two one-byte instructions out of INC,    *)
(* IAC, LD, XCH and LDM is loaded at address 0, at 0xFF or at 4094, and    *)
(* step() is called.                                                       *)

AccOpcodes == {\h61, \h6E, \h6F, \hA1, \hAE, \hB1, \hBE, \hD0, \hD5, \hDF, \hF2}

AccImages == {<<op, op>> : op \in AccOpcodes} \cup {<<\hB1, \hBE>>}

NextAcc ==
    \/ Arranging /\ SetAccumulator(Ints(0..15))
    \/ Arranging /\ SetCarry(Ints({0, 1}))
    \/ Arranging /\ SetFourBit({1}, Ints({0, 9, 15}))
    \/ Arranging /\ SetFourBit({14}, Ints({0, 7, 14, 15}))
    \/ Arranging /\ SetProgramCounter(Ints({\hFF, 4094}))
    \/ LoadRom(AccImages)
    \/ Step

SpecAcc == Init /\ [][NextAcc]_vars

\* C11: INC r fetched at an address below 4095 leaves (v + 1) mod 16 in
\* register r, 0 when v was 15, and raises nothing; the carry, the
\* accumulator and the other fifteen index registers keep their values and
\* pc advances by 1
C11_Inc ==
    SteppedFamily(\h60) =>
        LET r == last.opcode - \h60
            v == last.pre.four_bit_registers[r]
        IN  /\ last.exc = "none"
            /\ four_bit_registers =
                   [last.pre.four_bit_registers EXCEPT ![r] = (v + 1) % 16]
            /\ carry = last.pre.carry
            /\ accumulator = last.pre.accumulator
            /\ OneByteFrame

\* C11 is reached: INC 14 wrapped register 14 from 15 to 0 with the carry
\* at 1 and the accumulator at 5
C11_Witness ==
    /\ SteppedFamily(\h60)
    /\ last.opcode = \h6E
    /\ last.pre.four_bit_registers[14] = 15
    /\ four_bit_registers[14] = 0
    /\ carry = 1
    /\ accumulator = 5

\* the last call was a step() that fetched IAC at an address below 4095
SteppedIac ==
    /\ last.call = "step"
    /\ last.opcode = \hF2
    /\ last.pre.program_counter < 4095

\* C12: IAC on an accumulator a < 15 leaves a + 1 and raises nothing; on 15
\* the step raises ValueOutOfBounds and the accumulator still holds 15; in
\* both cases the carry keeps its value and pc has advanced by 1
C12_Iac ==
    SteppedIac =>
        /\ carry = last.pre.carry
        /\ four_bit_registers = last.pre.four_bit_registers
        /\ OneByteFrame
        /\ last.pre.accumulator < 15 =>
               /\ last.exc = "none"
               /\ accumulator = last.pre.accumulator + 1
        /\ last.pre.accumulator = 15 =>
               /\ last.exc = "ValueOutOfBounds"
               /\ accumulator = 15

\* C12 is reached: IAC raised on an accumulator of 15 with the carry at 1
C12_Witness ==
    /\ SteppedIac
    /\ last.pre.accumulator = 15
    /\ last.exc = "ValueOutOfBounds"
    /\ carry = 1
    /\ program_counter = \h100

\* the last two calls were step() calls that fetched the same XCH r
SteppedXchTwice ==
    /\ SteppedFamily(\hB0)
    /\ prev.call = "step"
    /\ prev.opcode = last.opcode
    /\ prev.exc = "none"

\* C18: XCH r leaves the old register r in the accumulator and the old
\* accumulator in register r, and a second XCH r brings both back; LD r
\* copies register r to the accumulator and leaves register r; LDM n leaves
\* n in the accumulator; none of them changes the carry or another index
\* register or raises, and each advances pc by 1
C18_Moves ==
    /\ SteppedFamily(\hB0) =>
           LET r == last.opcode - \hB0
           IN  /\ last.exc = "none"
               /\ accumulator = last.pre.four_bit_registers[r]
               /\ four_bit_registers =
                      [last.pre.four_bit_registers EXCEPT ![r] = last.pre.accumulator]
               /\ carry = last.pre.carry
               /\ OneByteFrame
    /\ SteppedXchTwice =>
           /\ accumulator = prev.pre.accumulator
           /\ four_bit_registers = prev.pre.four_bit_registers
           /\ carry = prev.pre.carry
           /\ program_counter = prev.pre.program_counter + 2
    /\ SteppedFamily(\hA0) =>
           /\ last.exc = "none"
           /\ accumulator = last.pre.four_bit_registers[last.opcode - \hA0]
           /\ four_bit_registers = last.pre.four_bit_registers
           /\ carry = last.pre.carry
           /\ OneByteFrame
    /\ SteppedFamily(\hD0) =>
           /\ last.exc = "none"
           /\ accumulator = last.opcode - \hD0
           /\ four_bit_registers = last.pre.four_bit_registers
           /\ carry = last.pre.carry
           /\ OneByteFrame

\* C18 is reached: the second of two XCH 1 brought back an accumulator of 5
\* and a register 1 of 9, with the carry at 1
C18_Witness ==
    /\ SteppedXchTwice
    /\ last.opcode = \hB1
    /\ last.pre.accumulator = 9
    /\ last.pre.four_bit_registers[1] = 5
    /\ accumulator = 5
    /\ four_bit_registers[1] = 9
    /\ carry = 1

----------------------------------------------------------------------------
(* Specification SpecJump: the flags, the accumulator and three register   *)
(* pairs are set, a two-byte image of JUN, FIM or JIN and an operand byte  *)
(* is loaded at address 0, at the end of page 0, inside page 0xB or at the *)
(* end of the store, and step() is called.                                 *)

JumpOpcodes == {\h40, \h4B, \h4E, \h20, \h22, \h2E, \h31, \h33, \h3F}

JumpOperands == {\h00, \h23, \hA7, \hFF}

JumpImages == {<<op, b>> : op \in JumpOpcodes, b \in JumpOperands}

NextJump ==
    \/ Arranging /\ SetAccumulator(Ints({15}))
    \/ Arranging /\ SetCarry(Ints({1}))
    \/ Arranging /\ SetTestPin(Ints({1}))
    \/ Arranging /\ SetEightBit({0, 1, 7}, Ints({\h5C}))
    \/ Arranging /\ SetEightBit({1}, Ints({\h00, \hFF}))
    \/ Arranging /\ SetProgramCounter(Ints({\hFF, \hB12, 4093, 4094}))
    \/ LoadRom(JumpImages)
    \/ Step

SpecJump == Init /\ [][NextJump]_vars

\* the last call was step()
Stepped == last.call = "step"

\* the last call was a step() that fetched one of the bytes S at an address
\* below 4095
SteppedAmong(S) ==
    /\ last.call = "step"
    /\ last.opcode \in S
    /\ last.pre.program_counter < 4095

\* C15: JUN 0x40 + h, h in 0..14, with the operand byte b leaves pc at
\* h * 256 + b whatever the page and the flags were, raises nothing and
\* changes no other register, no stack slot and no cell of the store
C15_Jun ==
    SteppedAmong(\h40..\h4E) =>
        LET h == last.opcode - \h40
            b == RomAt(last.pre.rom, last.pre.program_counter + 1)
        IN  /\ last.exc = "none"
            /\ program_counter = h * 256 + b
            /\ OnlyPcChanged

\* C15 is reached: JUN 0xB fetched at 4094 with every flag set jumped to
\* 0xB23
C15_Witness ==
    /\ SteppedAmong({\h4B})
    /\ last.pre.program_counter = 4094
    /\ program_counter = \hB23
    /\ carry = 1
    /\ test_pin = 1
    /\ accumulator = 15

\* C16: FIM 0x20 | 2i fetched at a with a + 2 <= 4095 and the operand byte
\* b leaves b >> 4 in register 2i, b & 0xF in register 2i + 1 and a + 2 in
\* pc; the accumulator, the carry and the other fourteen index registers
\* keep their values and nothing is raised
C16_Fim ==
    (SteppedAmong({\h20 + 2 * i : i \in 0..7})
        /\ last.pre.program_counter + 2 <= 4095) =>
        LET i == (last.opcode - \h20) \div 2
            b == RomAt(last.pre.rom, last.pre.program_counter + 1)
        IN  /\ last.exc = "none"
            /\ four_bit_registers =
                   [last.pre.four_bit_registers EXCEPT ![2 * i] = b \div 16,
                                                       ![2 * i + 1] = b % 16]
            /\ program_counter = last.pre.program_counter + 2
            /\ accumulator = last.pre.accumulator
            /\ carry = last.pre.carry
            /\ test_pin = last.pre.test_pin
            /\ stack = last.pre.stack
            /\ rom = last.pre.rom

\* C16 is reached: FIM 7P fetched at 4093 with the operand 0xA7 loaded 0xA
\* and 7 and left pair 1P at 0x5C and the accumulator at 15
C16_Witness ==
    /\ SteppedAmong({\h2E})
    /\ last.pre.program_counter = 4093
    /\ program_counter = 4095
    /\ four_bit_registers[14] = \hA
    /\ four_bit_registers[15] = 7
    /\ four_bit_registers[2] = 5
    /\ four_bit_registers[3] = \hC
    /\ accumulator = 15

\* C17: JIN 0x30 | 2i | 1 fetched at a leaves the page of a + 1 in the top
\* four bits of pc and the value of pair iP in the low eight; the pair and
\* every other register keep their values and nothing is raised
C17_Jin ==
    SteppedAmong({\h31 + 2 * i : i \in 0..7}) =>
        LET i == (last.opcode - \h31) \div 2
            a == last.pre.program_counter
            pair == 16 * last.pre.four_bit_registers[2 * i]
                    + last.pre.four_bit_registers[2 * i + 1]
        IN  /\ last.exc = "none"
            /\ program_counter = ((a + 1) \div 256) * 256 + pair
            /\ OnlyPcChanged

\* C17 is reached: JIN 1P fetched at 0xFF, the last byte of page 0, with
\* 0x5C in the pair jumped to 0x15C in page 1
C17_Witness ==
    /\ SteppedAmong({\h33})
    /\ last.pre.program_counter = \hFF
    /\ four_bit_registers[2] = 5
    /\ four_bit_registers[3] = \hC
    /\ program_counter = \h15C

----------------------------------------------------------------------------
(* Specification SpecPair: set() is called on the register pairs of the    *)
(* processor: on pair 1P, while it holds 0, 0xF0 or 0xFF, with every value *)
(* of 0..255 and with values that are not accepted, on pair 7P with two    *)
(* values.                                                                 *)

PairValues == Ints(-1..257) \cup {PyStr}

NextPair ==
    \/ /\ EightBitPhantomRegister_get(Machine, 1) \in {\h00, \hF0, \hFF}
       /\ CallPairSet({1}, PairValues)
    \/ CallPairSet({7}, Ints({\hA7, 256}))

SpecPair == Init /\ [][NextPair]_vars

\* the last call was set(v) on a register pair
PairSet == last.call = "EightBitPhantomRegister.set"

\* C19: set(v) on pair iP with v in 0..255 succeeds, after it get() returns
\* v, register 2i holds v >> 4 and register 2i + 1 holds v & 0xF; set(v)
\* with v below 0 or above 255 raises and leaves both registers as they were
C19_PairRoundTrip ==
    PairSet =>
        LET i == last.index
            v == last.arg.v
        IN  /\ (last.arg.type = "int" /\ v \in 0..255) =>
                   /\ last.exc = "none"
                   /\ EightBitPhantomRegister_get(Machine, i) = v
                   /\ four_bit_registers[2 * i] = v \div 16
                   /\ four_bit_registers[2 * i + 1] = v % 16
            /\ (last.arg.type = "int" /\ v \notin 0..255) =>
                   /\ last.exc = "ValueOutOfBounds"
                   /\ four_bit_registers[2 * i] = last.pre.four_bit_registers[2 * i]
                   /\ four_bit_registers[2 * i + 1]
                          = last.pre.four_bit_registers[2 * i + 1]

\* C19 is reached: set(42) on pair 1P, which held 0xF0, left 2 and 10
C19_Witness ==
    /\ PairSet
    /\ last.index = 1
    /\ last.arg = PyInt(42)
    /\ last.pre.four_bit_registers[2] = 15
    /\ four_bit_registers[2] = 2
    /\ four_bit_registers[3] = 10

----------------------------------------------------------------------------
(* Specification SpecInvert: one register of one of the four classes is    *)
(* built with any value of 0..4095 as the first call; on the register      *)
(* built, get_inverted() is called and its result is stored back.          *)

InvertValues == Ints(0..MAX_TWELVE_BIT_VALUE)

NextInvert ==
    \/ last.call = "__init__" /\ ConstructRegister(InvertValues)
    \/ CallGetInverted
    \/ CallStoreInverted

SpecInvert == Init /\ [][NextInvert]_vars

\* the last call was get_inverted()
GotInverted == last.call = "Register.get_inverted"

\* the last call was r.set(r.get_inverted())
StoredInverted == last.call = "Register.set(Register.get_inverted())"

\* C20: on a register of width w in {1, 4, 8, 12} that holds v,
\* get_inverted() returns (2^w - 1) - v, a value of 0..2^w - 1, so that
\* storing it succeeds, and get_inverted() on the stored value returns v
C20_GetInverted ==
    /\ GotInverted =>
           /\ last.cls \in {1, 4, 8, 12}
           /\ last.arg.v = (2^last.cls - 1) - last.old.value
           /\ last.arg.v \in 0..(2^last.cls - 1)
    /\ StoredInverted =>
           /\ last.exc = "none"
           /\ reg.value = (2^last.cls - 1) - last.old.value
    /\ (GotInverted /\ prev.call = "Register.set(Register.get_inverted())") =>
           last.arg.v = prev.old.value

\* C20 is reached: a twelve-bit register built with 0xABC had its inverse
\* 0x543 stored, and get_inverted() on it returned 0xABC
C20_Witness ==
    /\ GotInverted
    /\ prev.call = "Register.set(Register.get_inverted())"
    /\ last.cls = 12
    /\ prev.old.value = \hABC
    /\ reg.value = \h543
    /\ last.arg.v = \hABC

----------------------------------------------------------------------------
(* Specification SpecBuffer: push() and pop() are called on the return     *)
(* stack of a fresh processor, with the values of the test and one that    *)
(* does not fit, in any order, while at most MaxPending pushes wait for    *)
(* their pop.                                                              *)

PushValues == Ints({1, 2, 3, 4, 4096})

NextBuffer ==
    \/ CallPush(PushValues, MaxPending)
    \/ CallPop

SpecBuffer == Init /\ [][NextBuffer]_vars

\* the return addresses of the pending calls, oldest first
PendingRets == [i \in 1..Len(calls.frames) |-> calls.frames[i].ret]

\* 1, 2, 3, 4 were pushed, the first of them at slot 0, none of them is
\* popped and no fifth push was ever pending with them
TestPushed ==
    /\ PendingRets = <<1, 2, 3, 4>>
    /\ calls.frames[1].cursor = 0
    /\ calls.peak = 4

\* the last call popped a push that no later push had overwritten: fewer
\* than three pushes were ever pending above it
PoppedIntact ==
    /\ last.call = "CircularBuffer.pop"
    /\ calls.returned # NoFrame
    /\ calls.returned.peak - calls.returned.depth < 3

\* C14: push(x) writes x into the slot at the cursor and advances the cursor
\* modulo 3; pop() moves the cursor back modulo 3 and returns the value of
\* the slot it then points at; the cursor is always one of 0, 1, 2; after
\* 1, 2, 3, 4 are pushed from slot 0 the slots hold 4, 2, 3, and a pop
\* returns the value of the push it undoes as long as that push is one of
\* the last three, so that the next three pops return 4, 3, 2
C14_CircularBuffer ==
    /\ stack.cursor \in {0, 1, 2}
    /\ (last.call = "CircularBuffer.push" /\ last.exc = "none") =>
           /\ stack.registers = [last.pre.stack.registers
                                    EXCEPT ![last.pre.stack.cursor] = last.arg.v]
           /\ stack.cursor = (last.pre.stack.cursor + 1) % 3
    /\ last.call = "CircularBuffer.pop" =>
           /\ stack.cursor = (last.pre.stack.cursor + 2) % 3
           /\ stack.registers = last.pre.stack.registers
           /\ last.arg.v = stack.registers[stack.cursor]
    /\ TestPushed =>
           /\ stack.registers = (0 :> 4) @@ (1 :> 2) @@ (2 :> 3)
           /\ stack.cursor = 1
    /\ PoppedIntact => last.arg.v = calls.returned.ret

\* C14 is reached: after 1, 2, 3, 4 were pushed on the buffer from slot 0,
\* the third pop returned 2 and left the cursor at slot 1, with the 4 still
\* in slot 0 and the push of 1 still pending
C14_Witness ==
    /\ PoppedIntact
    /\ calls.returned.peak = 4
    /\ calls.returned.depth = 2
    /\ PendingRets = <<1>>
    /\ calls.frames[1].cursor = 0
    /\ last.arg.v = 2
    /\ stack.cursor = 1
    /\ stack.registers = (0 :> 4) @@ (1 :> 2) @@ (2 :> 3)

----------------------------------------------------------------------------
(* Specification SpecStack: programs of nested subroutine calls.  A        *)
(* program of depth k has JMS at the addresses a1..ak, each calling the    *)
(* next and the last calling a subroutine that is a single BBL 15; behind  *)
(* each JMS, at ai + 2, stands BBL i.  A BBL 0 at the entry address lets   *)
(* the harness start the calls with the cursor away from slot 0: it sets   *)
(* stack slots to the entry address or to a1 and starts at the entry.      *)

\* the address of the BBL 0 that moves the cursor before the calls
EntryAddress == \h008

\* the address of the innermost subroutine
LeafAddress == \h500

\* the addresses of the JMS instructions: one family inside the store, one
\* that starts at 4093, the last address a JMS returns from, and has a JMS
\* across the end of page 0 and one at the end of page 2
CallAddresses == {<<\h010, \h120, \hEF0, \h234>>, <<4093, \h0FE, \h2FF, \h400>>}

JmsAt(a, target) ==
    [address |-> a, image |-> <<\h50 + (target \div 256), target % 256>>]

BblAt(a, n) == [address |-> a, image |-> <<\hC0 + n>>]

CallProgram(as) ==
    <<BblAt(EntryAddress, 0), BblAt(LeafAddress, 15)>>
    \o [i \in 1..Len(as) |->
           JmsAt(as[i], IF i < Len(as) THEN as[i + 1] ELSE LeafAddress)]
    \o [i \in 1..Len(as) |-> BblAt(as[i] + 2, i)]

CallPrograms ==
    {CallProgram(SubSeq(as, 1, k)) : as \in CallAddresses, k \in 1..4}

StartAddresses == Ints({EntryAddress, \h010, 4093})

NextStack ==
    \/ Arranging /\ SetStackSlot({1, 2}, StartAddresses)
    \/ Arranging /\ SetProgramCounter(StartAddresses)
    \/ LoadProgram(CallPrograms)
    \/ StepWithin(MaxCallSteps)

SpecStack == Init /\ [][NextStack]_vars

\* the last call was a step() that fetched BBL n and returned from a pending
\* call of a nesting that never was deeper than three
ReturnedWithinThree ==
    /\ SteppedAmong(\hC0..\hCF)
    /\ calls.returned # NoFrame
    /\ calls.returned.peak <= 3

\* C13: when JMS instructions at a1..ak, k <= 3, were executed and BBLs
\* follow, each BBL n leaves in pc the address a + 2 behind the innermost
\* JMS that has not returned yet, n in the accumulator and the cursor where
\* it was when that JMS was fetched, and raises nothing: the returns come
\* back last in first out and the k-th BBL leaves the cursor where the
\* calls started
C13_CallReturn ==
    ReturnedWithinThree =>
        /\ last.exc = "none"
        /\ program_counter = calls.returned.ret
        /\ accumulator = last.opcode - \hC0
        /\ stack.cursor = calls.returned.cursor
        /\ stack.registers = last.pre.stack.registers

\* C13 is reached: the third BBL after three nested JMS, the first of them
\* fetched at 4093 with the cursor at slot 1, returned to 4095 with the 2 of
\* that BBL in the accumulator and the cursor back at slot 1
C13_Witness ==
    /\ ReturnedWithinThree
    /\ calls.returned.peak = 3
    /\ calls.returned.depth = 1
    /\ calls.frames = <<>>
    /\ program_counter = 4095
    /\ accumulator = 2
    /\ stack.cursor = 1
    /\ steps = 8

\* the last call was a step() of a nesting of four calls: four are pending,
\* or one of the four has just returned
SteppedInFour ==
    /\ Stepped
    /\ \/ calls.peak = 4
       \/ calls.returned.peak = 4

\* the last call was a step() that fetched the fourth JMS of a nesting
FourthCall ==
    /\ SteppedAmong(\h50..\h5E)
    /\ last.exc = "none"
    /\ Len(calls.frames) = 4

\* the last call was a step() that fetched BBL n and returned from a call
\* of a nesting of four
ReturnedFromFour ==
    /\ SteppedAmong(\hC0..\hCF)
    /\ calls.returned # NoFrame
    /\ calls.returned.peak = 4

\* C27: four JMS at a1..a4 with no BBL in between all succeed and the fourth
\* writes a4 + 2 into the slot that held a1 + 2; the BBLs that follow set pc
\* to a4 + 2, a3 + 2, a2 + 2 and, the fourth, to a4 + 2 again, each loading
\* its immediate; nothing is raised at any point
C27_Overflow ==
    /\ SteppedInFour => last.exc = "none"
    /\ FourthCall =>
           /\ calls.frames[4].cursor = calls.frames[1].cursor
           /\ last.pre.stack.registers[calls.frames[1].cursor] = calls.frames[1].ret
           /\ stack.registers[calls.frames[1].cursor] = calls.frames[4].ret
    /\ ReturnedFromFour =>
           /\ program_counter = IF calls.returned.depth = 1
                                   THEN calls.returned.deepest
                                   ELSE calls.returned.ret
           /\ accumulator = last.opcode - \hC0
           /\ stack.registers = last.pre.stack.registers

\* C27 is reached: the fourth BBL after four nested JMS, the first of them
\* fetched at 0x010 and the fourth at 0x234, was fetched at 0x122, behind the
\* second JMS, and went to 0x236 and not to 0x012
C27_Witness ==
    /\ ReturnedFromFour
    /\ calls.returned.depth = 1
    /\ calls.returned.ret = \h012
    /\ calls.returned.deepest = \h236
    /\ program_counter = \h236
    /\ prev.pre.program_counter = \hEF2
    /\ last.pre.program_counter = \h122
    /\ steps = 8

\* the last call was a step() that fetched BBL n while no call was pending
ReturnedFromNone ==
    /\ SteppedAmong(\hC0..\hCF)
    /\ calls.returned = NoFrame

\* C28: BBL n with no pending JMS raises nothing; it moves the cursor back
\* modulo 3, sets pc to the value of the slot the cursor comes to and loads
\* n into the accumulator; on a fresh processor the cursor goes from 0 to 2
\* and pc to 0
C28_Underflow ==
    ReturnedFromNone =>
        /\ last.exc = "none"
        /\ stack.cursor = (last.pre.stack.cursor + 2) % 3
        /\ program_counter = last.pre.stack.registers[stack.cursor]
        /\ accumulator = last.opcode - \hC0
        /\ stack.registers = last.pre.stack.registers
        /\ last.pre.stack = FreshMachine.stack =>
               /\ stack.cursor = 2
               /\ program_counter = 0

\* C28 is reached: on a processor whose stack nothing has touched, the BBL 1
\* behind a JMS that has returned already took the cursor from 0 to 2, pc
\* to 0 and the accumulator from 15 to 1
C28_Witness ==
    /\ ReturnedFromNone
    /\ last.opcode = \hC1
    /\ last.pre.accumulator = 15
    /\ accumulator = 1
    /\ last.pre.stack.cursor = 0
    /\ stack.cursor = 2
    /\ program_counter = 0

----------------------------------------------------------------------------
(* Specification SpecAny: every register of the processor is left at 0 or  *)
(* set to a value that is not 0, a two-byte image that starts with any of  *)
(* the 256 bytes is loaded at address 0 or at 4094, and step() is called.  *)

AnyOperands == {\h00, \hFF}

AnyImages == {<<op, b>> : op \in GenOpcodes, b \in AnyOperands}

NextAny ==
    \/ Arranging /\ SetAccumulator(Ints({15}))
    \/ Arranging /\ SetCarry(Ints({1}))
    \/ Arranging /\ SetTestPin(Ints({1}))
    \/ Arranging /\ SetDataPointer(Ints({\hA5}))
    \/ Arranging /\ SetEightBit({0}, Ints({\h5C}))
    \/ Arranging /\ SetStackSlot({2}, Ints({\h123}))
    \/ Arranging /\ SetProgramCounter(Ints({4094}))
    \/ LoadRom(AnyImages)
    \/ Step

SpecAny == Init /\ [][NextAny]_vars

\* C21: NOP fetched at an address a < 4095 leaves a + 1 in pc and raises
\* nothing; the accumulator, the carry, the test pin, the sixteen index
\* registers, the stack slots, the cursor and the instruction store (and
\* the data pointer) are as they were
C21_Nop ==
    SteppedAmong({\h00}) =>
        /\ last.exc = "none"
        /\ program_counter = last.pre.program_counter + 1
        /\ OnlyPcChanged

\* C21 is reached: NOP was fetched at 4094 with every register set
C21_Witness ==
    /\ SteppedAmong({\h00})
    /\ last.pre.program_counter = 4094
    /\ program_counter = 4095
    /\ accumulator = 15
    /\ carry = 1
    /\ test_pin = 1
    /\ four_bit_registers[0] = 5
    /\ stack.registers[2] = \h123

----------------------------------------------------------------------------
(* Specification SpecRom: on a fresh processor set_rom() is called once or *)
(* twice, with images of zero to three bytes, at the start of the store,   *)
(* at its last two addresses and at the first address past its end.        *)

RomAddresses == {0, 2, 4094, 4095, 4096}

RomImages == {<<>>, <<7>>, <<1, 2>>, <<0, 9, 0>>}

NextRom == CallSetRom(RomAddresses, RomImages)

SpecRom == Init /\ [][NextRom]_vars

\* C22: on the processor as the constructor leaves it the accumulator, the
\* carry, the test pin, the program counter, the data pointer, the sixteen
\* index registers, the eight pairs and the three stack slots are 0, and
\* the instruction store has 4096 cells, 0..4095, that all hold 0
C22_Fresh ==
    last.call = "__init__" =>
        /\ last.exc = "none"
        /\ accumulator = 0
        /\ carry = 0
        /\ test_pin = 0
        /\ program_counter = 0
        /\ data_pointer = 0
        /\ \A i \in 0..15 : four_bit_registers[i] = 0
        /\ \A p \in 0..7 : EightBitPhantomRegister_get(Machine, p) = 0
        /\ DOMAIN stack.registers = 0..2
        /\ \A i \in 0..2 : stack.registers[i] = 0
        /\ \A a \in 0..4095 : RomAt(rom, a) = 0
        /\ set_rom(rom, 4095, <<1>>).exc = "none"
        /\ set_rom(rom, 4096, <<1>>).exc # "none"

\* C22 is reached: the processor has just been constructed
C22_Witness ==
    /\ last.call = "__init__"
    /\ steps = 0
    /\ rom = FreshMachine.rom
    /\ stack = FreshMachine.stack

\* the last call was set_rom(address, image)
LoadedImage == last.call = "Intel4004.set_rom"

\* C23: set_rom(address, image) whose range ends at 4095 or below copies
\* the image to the cells address .. address + len - 1 and leaves every
\* other cell as it was; when the range exceeds 4095 the call raises and
\* the instruction store is as it was before the call
C23_SetRom ==
    LoadedImage =>
        LET address == last.arg.v
            image == last.arg.bytes
        IN  /\ address + Len(image) - 1 <= 4095 =>
                   /\ last.exc = "none"
                   /\ \A a \in 0..4095 :
                          RomAt(rom, a) =
                              IF a \in address..(address + Len(image) - 1)
                              THEN image[a - address + 1]
                              ELSE RomAt(last.pre.rom, a)
            /\ address + Len(image) - 1 > 4095 =>
                   /\ last.exc # "none"
                   /\ rom = last.pre.rom

\* the bytes the claim lists as bound
BoundOpcodes ==
    {\h00, \hF0, \hF1, \hF2, \hF8}
    \cup (\h60..\h6F) \cup (\h80..\hBF) \cup (\hC0..\hDF)
    \cup {\h20 + 2 * i : i \in 0..7} \cup {\h31 + 2 * i : i \in 0..7}
    \cup (\h10..\h1E) \cup (\h40..\h4E) \cup (\h50..\h5E)

\* the registry the constructor leaves: no register() call of it raised, no
\* two of them name the same byte, the bytes bound are the listed ones, and
\* one more register() raises OpcodeCollision on a bound byte and on no other
RegistryAsListed ==
    /\ dispatch_map.exc = "none"
    /\ \A i, j \in 1..Len(Registrations) :
           Registrations[i][1] = Registrations[j][1] => i = j
    /\ DOMAIN dispatch_map.opcodes = BoundOpcodes
    /\ \A opcode \in 0..255 :
           OpcodeRegistry_register(dispatch_map, opcode, Handler("opcode_noop", 0)).exc
               = IF opcode \in BoundOpcodes THEN "OpcodeCollision" ELSE "none"

\* C24: the registrations of the constructor never collide and bind exactly
\* the listed bytes; 0x1F, 0x4F and 0x5F are not bound, and a step() that
\* fetches one of them raises UnknownOpcode
C24_Registry ==
    /\ RegistryAsListed
    /\ {\h1F, \h4F, \h5F} \cap DOMAIN dispatch_map.opcodes = {}
    /\ SteppedAmong({\h1F, \h4F, \h5F}) => last.exc = "UnknownOpcode"

\* C24 is reached: a step() fetched 0x5F, the sixteenth encoding of JMS, and
\* raised UnknownOpcode with pc behind the byte
C24_Witness ==
    /\ SteppedAmong({\h5F})
    /\ last.exc = "UnknownOpcode"
    /\ program_counter = last.pre.program_counter + 1

\* C25: a step(), whether it raised or not and whatever byte it fetched,
\* leaves the instruction store, the test pin and the data pointer as they
\* were before it
C25_StepFrame ==
    Stepped =>
        /\ rom = last.pre.rom
        /\ test_pin = last.pre.test_pin
        /\ data_pointer = last.pre.data_pointer

\* C25 is reached: the second step() of a run raised, with the image in the
\* store, the test pin at 1 and the data pointer at 0xA5
C25_Witness ==
    /\ Stepped
    /\ steps = 2
    /\ last.exc # "none"
    /\ rom # FreshMachine.rom
    /\ test_pin = 1
    /\ data_pointer = \hA5

\* the last call was a step() that raised a range error
SteppedOutOfBounds == Stepped /\ last.exc = "ValueOutOfBounds"

\* C29: a step() that raises a range error leaves the accumulator, the
\* carry, the index registers and the stack as they were before it; only
\* pc may have advanced
C29_FailedStepFrame ==
    SteppedOutOfBounds =>
        /\ accumulator = last.pre.accumulator
        /\ carry = last.pre.carry
        /\ four_bit_registers = last.pre.four_bit_registers
        /\ stack = last.pre.stack

\* what step() leaves on the processor that differs from the one the last
\* step() started from in the test pin only
TestPinTwin == step([last.pre EXCEPT !.test_pin = 1 - @])

\* C30: when the byte fetched is neither 0x11 nor 0x19, the step() of the
\* processor and the step() of its twin with the other test pin raise the
\* same and leave states that differ in the test pin only
C30_TestPinNonInterference ==
    (Stepped /\ last.opcode \notin {\h11, \h19}) =>
        /\ TestPinTwin.exc = last.exc
        /\ [TestPinTwin EXCEPT !.test_pin = test_pin, !.exc = "none"] = Machine

\* C30 is reached: JCN with the mask 0x3 was fetched with the test pin at 0
\* and the carry at 0 and did not jump, as its twin with the pin at 1
C30_Witness ==
    /\ SteppedAmong({\h13})
    /\ last.pre.test_pin = 0
    /\ last.pre.carry = 0
    /\ last.pre.program_counter = 0
    /\ program_counter = 2
    /\ TestPinTwin.program_counter = 2
    /\ TestPinTwin.test_pin = 1

----------------------------------------------------------------------------
(* Specification SpecProg: the countdown program of test_program_four is   *)
(* loaded at address 0 of a fresh processor, with any counter n of 0..15   *)
(* in its LDM, and step() is called while pc is inside the image.  The     *)
(* loop of the test keeps calling step(), hence the fairness condition.    *)

\* LDM n; XCH 0; CLC; LD 1; ADD 0; XCH 1; LD 0; DAC; XCH 0; JCN 2, 0x02
ProgImage(n) ==
    <<\hD0 + n, \hB0, \hF1, \hA1, \h80, \hB1, \hA0, \hF8, \hB0, \h12, \h02>>

ProgImages == {ProgImage(n) : n \in 0..15}

\* the image is in the store
ProgLoaded == rom # FreshMachine.rom

\* while em.program_counter.get() < len(compiled): em.step()
StepProg ==
    /\ ProgLoaded
    /\ program_counter < Len(ProgImage(0))
    /\ StepWithin(MaxProgSteps)

NextProg ==
    \/ LoadRom(ProgImages)
    \/ StepProg

SpecProg == Init /\ [][NextProg]_vars /\ WF_vars(NextProg)

\* the counter the loaded program starts from
ProgCounter == RomAt(rom, 0) - \hD0

\* the run has left the loop
ProgDone == ProgLoaded /\ program_counter = 11

\* no step of the run raised, and once the loop is left register 1 holds
\* n + (n - 1) + ... + 1 modulo 16 and the carry is clear
ProgSafe ==
    /\ Stepped => last.exc = "none"
    /\ ProgDone =>
           /\ four_bit_registers[1] = ((ProgCounter * (ProgCounter + 1)) \div 2) % 16
           /\ carry = 0
           /\ ProgCounter = 4 => four_bit_registers[1] = 10

\* C26: the countdown program, run from a fresh processor for any counter n
\* of 0..15, never raises, eventually leaves its loop with pc = 11, and
\* then holds (n + ... + 1) mod 16 in register 1, 10 for n = 4
C26_Countdown == [](ProgSafe) /\ (ProgLoaded ~> ProgDone)

\* C26 is reached: the run for n = 4 left the loop after 42 steps with 10
\* in register 1
C26_Witness ==
    /\ ProgDone
    /\ ProgCounter = 4
    /\ steps = 42
    /\ four_bit_registers[1] = 10
    /\ last.opcode = \h12

----------------------------------------------------------------------------
(* Specification SpecSafe: the registers are left at 0 or set to the       *)
(* largest value they hold, one index register or one pair at most, a      *)
(* two-byte image that starts with any of the 256 bytes is loaded at       *)
(* address 0 or at 4093, the last address a two-byte instruction can be    *)
(* fetched from, and step() is called.                                     *)

SafeOperands == {\h00, \hFF}

SafeImages == {<<op, b>> : op \in GenOpcodes, b \in SafeOperands}

\* no index register has been set yet
IndexRegistersFresh == four_bit_registers = FreshMachine.four_bit_registers

NextSafe ==
    \/ Arranging /\ SetAccumulator(Ints({15}))
    \/ Arranging /\ SetCarry(Ints({1}))
    \/ Arranging /\ SetTestPin(Ints({1}))
    \/ Arranging /\ IndexRegistersFresh /\ SetFourBit(0..15, Ints({15}))
    \/ Arranging /\ IndexRegistersFresh /\ SetEightBit(0..7, Ints({\hFF}))
    \/ Arranging /\ SetStackSlot({2}, Ints({4095}))
    \/ Arranging /\ SetProgramCounter(Ints({4093}))
    \/ LoadRom(SafeImages)
    \/ Step

SpecSafe == Init /\ [][NextSafe]_vars

\* the last call was a step() from an address of 0..4093 that fetched a
\* registered opcode from a store whose bytes are all in 0..255
SteppedRegistered ==
    /\ Stepped
    /\ last.pre.program_counter <= 4093
    /\ last.opcode \in DOMAIN dispatch_map.opcodes
    /\ \A a \in DOMAIN last.pre.rom : last.pre.rom[a] \in 0..255

\* C31: a step() from an address of 0..4093 that fetches a registered opcode
\* from a store of bytes completes without an exception unless the opcode
\* is IAC (0xF2) and the accumulator holds 15, and then it raises: no other
\* handler attempts a write that is out of the range of its register or
\* stack slot
C31_StepSafe ==
    SteppedRegistered =>
        (last.exc # "none" <=> (last.opcode = \hF2 /\ last.pre.accumulator = 15))

\* C31 is reached: ADD 15 fetched at 4093 with 15 in the accumulator and in
\* register 15 and the carry set completed, with 15 in the accumulator
C31_Witness ==
    /\ SteppedRegistered
    /\ last.opcode = \h8F
    /\ last.pre.program_counter = 4093
    /\ last.pre.accumulator = 15
    /\ last.pre.carry = 1
    /\ last.pre.four_bit_registers[15] = 15
    /\ last.exc = "none"
    /\ accumulator = 15
    /\ carry = 1
    /\ program_counter = 4094

====
